---- MODULE Spec2Model ----
(***************************************************************************)
(* Placement Tracker API: the relational tables (users, companies,         *)
(* drives), the per-request database session, and the request handlers     *)
(* register_user, login_user, create_drive, get_drives_by_company and the  *)
(* startup seeding.  Each handler is split at its database round trips,    *)
(* which is where requests running on their own sessions interleave.       *)
(***************************************************************************)
EXTENDS Integers, FiniteSets, Sequences, TLC

\* Number of requests the server handles in one run (each on its own session).
NumReqs == 2

\* Number of times the server process is started again on the same database.
MaxRestarts == 1

Reqs == 1..NumReqs

\* Request inputs.
Emails == {"a@x.org", "b@x.org"}
Passwords == {"pw1", "pw2"}
FullNames == {"Ann"}
AccountTypes == {"student"}
\* Company 1 is the seeded company's id; 999999 is an id no company ever has.
CompanyIds == {1, 999999}

\* ------------------------------------------------------------------------
\* Pydantic schemas: the fields each model declares (all required).

UserCreateFields == {"full_name", "email", "password", "account_type"}

UserSchemaFields == {"id", "full_name", "email", "account_type"}

DriveBaseFields == {"company_id", "role", "package_lpa", "deadline"}

\* The two login bodies a client sends: the one the login page sends (email and
\* password only) and one that also carries every UserSchema field.
LoginBodyMinimal == {"email", "password"}
LoginBodyFull == UserSchemaFields \cup {"password"}

\* Request-body validation: every declared field must be present.
Validates(schemaFields, bodyFields) == schemaFields \subseteq bodyFields

\* The attributes of the parsed model: the declared fields only (extras are ignored).
ModelAttrs(schemaFields, bodyFields) == schemaFields \cap bodyFields

\* ------------------------------------------------------------------------
\* Password hashing (a salted one-way digest; verification recomputes it).
\* The library draws a fresh salt at every call; the salt of the hash made for
\* request r is r.

PwCode(p) == IF p = "pw1" THEN 7 ELSE 11

Digest(p, salt) == (PwCode(p) * 31 + salt * 17) % 101

get_password_hash(password, salt) == [salt |-> salt, digest |-> Digest(password, salt)]

verify_password(plain_password, hashed_password) ==
    Digest(plain_password, hashed_password.salt) = hashed_password.digest

\* ------------------------------------------------------------------------
VARIABLES
    users,      \* committed rows of table users
    companies,  \* committed rows of table companies
    drives,     \* committed rows of table drives
    tables,     \* TRUE once Base.metadata.create_all has run
    sessions,   \* sequence: sessions[s] is "open" or "closed"
    startup,    \* position of startup_event
    c1,         \* startup_event's local c1.id (0 before it is assigned)
    startup_db, \* startup_event's local db: its session (0: none)
    restarts,   \* number of times the process has been started again
    kind,       \* kind[r]: which endpoint request r calls ("none" before it arrives)
    pc,         \* pc[r]: position of request r in its handler
    body,       \* body[r]: the request's input
    db,         \* db[r]: the session request r was given (0: none)
    pending,    \* pending[r]: rows added to r's session and not yet committed
    db_user,    \* db_user[r]: result of get_user_by_email (a set: empty or one row)
    created,    \* created[r]: rows request r has committed
    exc,        \* exc[r]: the exception raised in the handler and the statement raising it
    attempts,   \* attempts[r]: number of commits request r has attempted
    resp        \* resp[r]: the response sent

vars == <<users, companies, drives, tables, sessions, startup, c1, startup_db, restarts,
          kind, pc, body, db, pending, db_user, created, exc, attempts, resp>>

dbvars == <<users, companies, drives>>

NoBody == [fields |-> {}, email |-> "", password |-> "", full_name |-> "",
           account_type |-> "", company_id |-> 0]

NoResp == [status |-> 0, detail |-> "", data |-> {}]

Response(status, detail, data) == [status |-> status, detail |-> detail, data |-> data]

NoExc == [type |-> "", at |-> ""]

ServerError == Response(500, "Internal Server Error", {})

\* ------------------------------------------------------------------------
\* Queries.

get_user_by_email_wrong_column(email) == {u \in users : u.full_name = email}

get_user_by_email(email) == {u \in users : u.email = email}

get_drives_by_company_id(company_id) == {d \in drives : d.company_id = company_id}

CompanyById_unfiltered(company_id) == companies

CompanyById(company_id) == {c \in companies : c.id = company_id}

\* response_model=UserSchema: the row without its hashed password.
UserSchemaOf(u) == [id |-> u.id, full_name |-> u.full_name, email |-> u.email,
                    account_type |-> u.account_type]

\* The autoincrement primary key of the next row of a table.
NextId(table) == Cardinality(table) + 1

EmailUnique_dropped(email) == TRUE

\* The unique constraint on users.email.
EmailUnique(email) == \A u \in users : u.email # email

\* SessionLocal(): a new session, open.
SessionLocal == Append(sessions, "open")

Close(s) == [sessions EXCEPT ![s] = "closed"]

Raise(r, type, at) == [exc EXCEPT ![r] = [type |-> type, at |-> at]]

Init ==
    /\ users = {}
    /\ companies = {}
    /\ drives = {}
    /\ tables = FALSE
    /\ sessions = <<>>
    /\ startup = "start"
    /\ c1 = 0
    /\ startup_db = 0
    /\ restarts = 0
    /\ kind = [r \in Reqs |-> "none"]
    /\ pc = [r \in Reqs |-> "idle"]
    /\ body = [r \in Reqs |-> NoBody]
    /\ db = [r \in Reqs |-> 0]
    /\ pending = [r \in Reqs |-> {}]
    /\ db_user = [r \in Reqs |-> {}]
    /\ created = [r \in Reqs |-> {}]
    /\ exc = [r \in Reqs |-> NoExc]
    /\ attempts = [r \in Reqs |-> 0]
    /\ resp = [r \in Reqs |-> NoResp]

reqvars == <<kind, pc, body, db, pending, db_user, created, exc, attempts, resp>>

\* ------------------------------------------------------------------------
\* startup_event

startvars == <<startup, c1, startup_db, restarts>>

StartupCreateAll ==
    /\ startup = "start"
    /\ tables' = TRUE
    /\ sessions' = SessionLocal
    /\ startup_db' = Len(sessions) + 1
    /\ startup' = "query"
    /\ UNCHANGED <<dbvars, c1, restarts, reqvars>>

StartupSeedCompany ==
    /\ startup = "query"
    /\ IF companies = {}
       THEN /\ companies' = companies \cup
                  {[id |-> NextId(companies), name |-> "TechCorp Solutions"]}
            /\ c1' = NextId(companies)
            /\ startup' = "drive"
       ELSE /\ startup' = "close"
            /\ UNCHANGED <<companies, c1>>
    /\ UNCHANGED <<users, drives, tables, sessions, startup_db, restarts, reqvars>>

StartupSeedDrive_unrefreshed ==
    /\ startup = "drive"
    /\ drives' = drives \cup
          {[id |-> NextId(drives), company_id |-> 0, role |-> "Software Intern"]}
    /\ startup' = "close"
    /\ UNCHANGED <<users, companies, tables, sessions, c1, startup_db, restarts, reqvars>>

StartupSeedDrive ==
    /\ startup = "drive"
    /\ drives' = drives \cup
          {[id |-> NextId(drives), company_id |-> c1, role |-> "Software Intern"]}
    /\ startup' = "close"
    /\ UNCHANGED <<users, companies, tables, sessions, c1, startup_db, restarts, reqvars>>

StartupClose ==
    /\ startup = "close"
    /\ sessions' = Close(startup_db)
    /\ startup' = "done"
    /\ UNCHANGED <<dbvars, tables, c1, startup_db, restarts, reqvars>>

\* The server process is stopped and started again on the same database file.
Restart ==
    /\ startup = "done"
    /\ restarts < MaxRestarts
    /\ \A r \in Reqs : pc[r] = "done"
    /\ startup' = "start"
    /\ c1' = 0
    /\ startup_db' = 0
    /\ restarts' = restarts + 1
    /\ UNCHANGED <<dbvars, tables, sessions, reqvars>>

\* ------------------------------------------------------------------------
\* get_db_session: the request arrives, its session is opened, its body is validated.
\* Requests are served once startup_event has returned; they arrive in the order
\* of their numbers.

RegisterBodies ==
    {[NoBody EXCEPT !.fields = UserCreateFields, !.email = e, !.password = p,
                    !.full_name = n, !.account_type = a] :
        e \in Emails, p \in Passwords, n \in FullNames, a \in AccountTypes}

LoginBodies ==
    {[NoBody EXCEPT !.fields = LoginBodyFull, !.email = e, !.password = p] :
        e \in Emails, p \in Passwords}
    \cup {[NoBody EXCEPT !.fields = LoginBodyMinimal, !.email = "a@x.org",
                         !.password = "pw1"]}

DriveBodies ==
    {[NoBody EXCEPT !.fields = DriveBaseFields, !.company_id = c] : c \in CompanyIds}

ListBodies == {[NoBody EXCEPT !.company_id = c] : c \in CompanyIds}

Bodies(k) ==
    CASE k = "register" -> RegisterBodies
      [] k = "login" -> LoginBodies
      [] k = "create_drive" -> DriveBodies
      [] k = "list_drives" -> ListBodies

\* The schema each endpoint declares for its body.
BodySchema(k) ==
    CASE k = "register" -> UserCreateFields
      [] k = "login" -> UserSchemaFields
      [] k = "create_drive" -> DriveBaseFields
      [] k = "list_drives" -> {}

get_db_session(r, k, b) ==
    /\ pc[r] = "idle"
    /\ tables
    /\ startup = "done"
    /\ \A q \in Reqs : q < r => pc[q] # "idle"
    /\ kind' = [kind EXCEPT ![r] = k]
    /\ body' = [body EXCEPT ![r] = b]
    /\ sessions' = SessionLocal
    /\ db' = [db EXCEPT ![r] = Len(sessions) + 1]
    /\ IF Validates(BodySchema(k), b.fields)
       THEN /\ pc' = [pc EXCEPT ![r] = "handler"]
            /\ resp' = resp
       ELSE /\ pc' = [pc EXCEPT ![r] = "finally"]
            /\ resp' = [resp EXCEPT ![r] = Response(422, "Field required", {})]
    /\ UNCHANGED <<dbvars, tables, startvars, pending, db_user, created, exc, attempts>>

Receive(r) ==
    \E k \in {"register", "login", "create_drive", "list_drives"} :
        \E b \in Bodies(k) : get_db_session(r, k, b)

CloseSession_on_success_only(r) ==
    /\ pc[r] = "finally"
    /\ sessions' = IF resp[r].status < 400 THEN Close(db[r]) ELSE sessions
    /\ pending' = [pending EXCEPT ![r] = {}]
    /\ pc' = [pc EXCEPT ![r] = "done"]
    /\ UNCHANGED <<dbvars, tables, startvars, kind, body, db, db_user, created, exc,
                   attempts, resp>>

\* finally: db.close()
CloseSession(r) ==
    /\ pc[r] = "finally"
    /\ sessions' = Close(db[r])
    /\ pending' = [pending EXCEPT ![r] = {}]
    /\ pc' = [pc EXCEPT ![r] = "done"]
    /\ UNCHANGED <<dbvars, tables, startvars, kind, body, db, db_user, created, exc,
                   attempts, resp>>

\* ------------------------------------------------------------------------
\* register_user and create_user

\* register_user up to create_user's db.add: the existence check, the hash, the add.
RegisterCheck(r) ==
    /\ pc[r] = "handler"
    /\ kind[r] = "register"
    /\ db_user' = [db_user EXCEPT ![r] = get_user_by_email(body[r].email)]
    /\ IF db_user'[r] # {}
       THEN /\ resp' = [resp EXCEPT ![r] = Response(400, "Email already registered", {})]
            /\ pc' = [pc EXCEPT ![r] = "finally"]
            /\ UNCHANGED <<pending, exc>>
       ELSE /\ resp' = resp
            /\ \/ LET salt == r IN
                    /\ pending' = [pending EXCEPT ![r] =
                          {[full_name |-> body[r].full_name, email |-> body[r].email,
                            hashed_password |-> get_password_hash(body[r].password, salt),
                            account_type |-> body[r].account_type]}]
                    /\ pc' = [pc EXCEPT ![r] = "commit"]
                    /\ exc' = exc
               \/ /\ exc' = Raise(r, "InvalidRequestError", "add")
                  /\ pc' = [pc EXCEPT ![r] = "except"]
                  /\ pending' = pending
    /\ UNCHANGED <<dbvars, tables, sessions, startvars, kind, body, db, created, attempts>>

WithId(row, id) ==
    [id |-> id, full_name |-> row.full_name, email |-> row.email,
     hashed_password |-> row.hashed_password, account_type |-> row.account_type]

CreateUserCommit_partial(r) ==
    /\ pc[r] = "commit"
    /\ kind[r] = "register"
    /\ attempts' = [attempts EXCEPT ![r] = @ + 1]
    /\ \/ /\ EmailUnique(body[r].email)
          /\ \E row \in pending[r] :
                /\ users' = users \cup {WithId(row, NextId(users))}
                /\ created' = [created EXCEPT ![r] = {WithId(row, NextId(users))}]
          /\ pending' = [pending EXCEPT ![r] = {}]
          /\ pc' = [pc EXCEPT ![r] = "refresh"]
          /\ exc' = exc
       \/ /\ ~EmailUnique(body[r].email)
          /\ exc' = Raise(r, "IntegrityError", "commit")
          /\ pc' = [pc EXCEPT ![r] = "except"]
          /\ UNCHANGED <<users, created, pending>>
       \/ /\ EmailUnique(body[r].email)
          /\ \E row \in pending[r] : users' = users \cup {WithId(row, NextId(users))}
          /\ exc' = Raise(r, "OperationalError", "commit")
          /\ pc' = [pc EXCEPT ![r] = "except"]
          /\ UNCHANGED <<created, pending>>
    /\ UNCHANGED <<companies, drives, tables, sessions, startvars, kind, body, db,
                   db_user, resp>>

\* db.commit() of create_user: the INSERT, checked against the unique constraint.
CreateUserCommit(r) ==
    /\ pc[r] = "commit"
    /\ kind[r] = "register"
    /\ attempts' = [attempts EXCEPT ![r] = @ + 1]
    /\ \/ /\ EmailUnique(body[r].email)
          /\ \E row \in pending[r] :
                /\ users' = users \cup {WithId(row, NextId(users))}
                /\ created' = [created EXCEPT ![r] = {WithId(row, NextId(users))}]
          /\ pending' = [pending EXCEPT ![r] = {}]
          /\ pc' = [pc EXCEPT ![r] = "refresh"]
          /\ exc' = exc
       \/ /\ ~EmailUnique(body[r].email)
          /\ exc' = Raise(r, "IntegrityError", "commit")
          /\ pc' = [pc EXCEPT ![r] = "except"]
          /\ UNCHANGED <<users, created, pending>>
       \/ /\ exc' = Raise(r, "OperationalError", "commit")
          /\ pc' = [pc EXCEPT ![r] = "except"]
          /\ UNCHANGED <<users, created, pending>>
    /\ UNCHANGED <<companies, drives, tables, sessions, startvars, kind, body, db,
                   db_user, resp>>

\* db.refresh(db_user); return db_user
CreateUserRefresh(r) ==
    /\ pc[r] = "refresh"
    /\ kind[r] = "register"
    /\ \/ /\ resp' = [resp EXCEPT ![r] =
                Response(201, "", {UserSchemaOf(u) : u \in {x \in users : x \in created[r]}})]
          /\ pc' = [pc EXCEPT ![r] = "finally"]
          /\ exc' = exc
       \/ /\ exc' = Raise(r, "OperationalError", "refresh")
          /\ pc' = [pc EXCEPT ![r] = "except"]
          /\ resp' = resp
    /\ UNCHANGED <<dbvars, tables, sessions, startvars, kind, body, db, pending, db_user,
                   created, attempts>>

CreateUserRollback_swallowed(r) ==
    /\ pc[r] = "except"
    /\ kind[r] = "register"
    /\ pending' = [pending EXCEPT ![r] = {}]
    /\ resp' = [resp EXCEPT ![r] = Response(201, "", {})]
    /\ pc' = [pc EXCEPT ![r] = "finally"]
    /\ UNCHANGED <<dbvars, tables, sessions, startvars, kind, body, db, db_user, created,
                   exc, attempts>>

\* except Exception: db.rollback(); raise
CreateUserRollback(r) ==
    /\ pc[r] = "except"
    /\ kind[r] = "register"
    /\ pending' = [pending EXCEPT ![r] = {}]
    /\ resp' = [resp EXCEPT ![r] = ServerError]
    /\ pc' = [pc EXCEPT ![r] = "finally"]
    /\ UNCHANGED <<dbvars, tables, sessions, startvars, kind, body, db, db_user, created,
                   exc, attempts>>

\* ------------------------------------------------------------------------
\* login_user

LoginUser(r) ==
    /\ pc[r] = "handler"
    /\ kind[r] = "login"
    /\ db_user' = [db_user EXCEPT ![r] = get_user_by_email(body[r].email)]
    /\ IF db_user'[r] = {}
       THEN /\ resp' = [resp EXCEPT ![r] = Response(401, "Invalid credentials", {})]
            /\ exc' = exc
       ELSE IF "password" \notin ModelAttrs(UserSchemaFields, body[r].fields)
       THEN /\ resp' = [resp EXCEPT ![r] = ServerError]
            /\ exc' = Raise(r, "AttributeError", "verify")
       ELSE IF \E u \in db_user'[r] : ~verify_password(body[r].password, u.hashed_password)
       THEN /\ resp' = [resp EXCEPT ![r] = Response(401, "Invalid credentials", {})]
            /\ exc' = exc
       ELSE /\ resp' = [resp EXCEPT ![r] = Response(200, "Login successful",
                  {[user_id |-> u.id, account_type |-> u.account_type,
                    token |-> "SIMULATED_TOKEN"] : u \in db_user'[r]})]
            /\ exc' = exc
    /\ pc' = [pc EXCEPT ![r] = "finally"]
    /\ UNCHANGED <<dbvars, tables, sessions, startvars, kind, body, db, pending, created,
                   attempts>>

\* ------------------------------------------------------------------------
\* create_drive

\* The company check and db.add(db_drive).
CreateDriveCheck(r) ==
    /\ pc[r] = "handler"
    /\ kind[r] = "create_drive"
    /\ IF CompanyById(body[r].company_id) = {}
       THEN /\ resp' = [resp EXCEPT ![r] = Response(404, "Company ID not found.", {})]
            /\ pc' = [pc EXCEPT ![r] = "finally"]
            /\ UNCHANGED <<pending, exc>>
       ELSE \/ /\ pending' = [pending EXCEPT ![r] =
                     {[company_id |-> body[r].company_id, role |-> "role"]}]
               /\ pc' = [pc EXCEPT ![r] = "commit"]
               /\ UNCHANGED <<resp, exc>>
            \/ /\ exc' = Raise(r, "InvalidRequestError", "add")
               /\ resp' = [resp EXCEPT ![r] = ServerError]
               /\ pc' = [pc EXCEPT ![r] = "finally"]
               /\ pending' = pending
    /\ UNCHANGED <<dbvars, tables, sessions, startvars, kind, body, db, db_user, created,
                   attempts>>

DriveWithId(row, id) == [id |-> id, company_id |-> row.company_id, role |-> row.role]

\* db.commit()
CreateDriveCommit(r) ==
    /\ pc[r] = "commit"
    /\ kind[r] = "create_drive"
    /\ attempts' = [attempts EXCEPT ![r] = @ + 1]
    /\ \/ /\ \E row \in pending[r] :
                /\ drives' = drives \cup {DriveWithId(row, NextId(drives))}
                /\ created' = [created EXCEPT ![r] = {DriveWithId(row, NextId(drives))}]
          /\ pending' = [pending EXCEPT ![r] = {}]
          /\ pc' = [pc EXCEPT ![r] = "refresh"]
          /\ UNCHANGED <<exc, resp>>
       \/ /\ exc' = Raise(r, "OperationalError", "commit")
          /\ resp' = [resp EXCEPT ![r] = ServerError]
          /\ pc' = [pc EXCEPT ![r] = "finally"]
          /\ UNCHANGED <<drives, created, pending>>
    /\ UNCHANGED <<users, companies, tables, sessions, startvars, kind, body, db, db_user>>

\* db.refresh(db_drive) and the query of the drive by its id.
CreateDriveRefresh(r) ==
    /\ pc[r] = "refresh"
    /\ kind[r] = "create_drive"
    /\ \/ /\ resp' = [resp EXCEPT ![r] =
                Response(200, "", {d \in drives : d \in created[r]})]
          /\ exc' = exc
       \/ /\ exc' = Raise(r, "OperationalError", "refresh")
          /\ resp' = [resp EXCEPT ![r] = ServerError]
    /\ pc' = [pc EXCEPT ![r] = "finally"]
    /\ UNCHANGED <<dbvars, tables, sessions, startvars, kind, body, db, pending, db_user,
                   created, attempts>>

\* ------------------------------------------------------------------------
\* get_drives_by_company

DrivesOfCompany_unfiltered(company_id) == drives

\* The handler's own query (it does not call get_drives_by_company_id).
DrivesOfCompany(company_id) == {d \in drives : d.company_id = company_id}

get_drives_by_company(r) ==
    /\ pc[r] = "handler"
    /\ kind[r] = "list_drives"
    /\ IF DrivesOfCompany(body[r].company_id) = {}
       THEN resp' = [resp EXCEPT ![r] =
                Response(404, "No drives found for this company.", {})]
       ELSE resp' = [resp EXCEPT ![r] =
                Response(200, "", DrivesOfCompany(body[r].company_id))]
    /\ pc' = [pc EXCEPT ![r] = "finally"]
    /\ UNCHANGED <<dbvars, tables, sessions, startvars, kind, body, db, pending, db_user,
                   created, exc, attempts>>

\* ------------------------------------------------------------------------
Next ==
    \/ StartupCreateAll
    \/ StartupSeedCompany
    \/ StartupSeedDrive
    \/ StartupClose
    \/ Restart
    \/ \E r \in Reqs :
        \/ Receive(r)
        \/ RegisterCheck(r)
        \/ CreateUserCommit(r)
        \/ CreateUserRefresh(r)
        \/ CreateUserRollback(r)
        \/ LoginUser(r)
        \/ CreateDriveCheck(r)
        \/ CreateDriveCommit(r)
        \/ CreateDriveRefresh(r)
        \/ get_drives_by_company(r)
        \/ CloseSession(r)

Spec == Init /\ [][Next]_vars

\* The server runs every handler it has started to its end.
Handle(r) ==
    \/ RegisterCheck(r)
    \/ CreateUserCommit(r)
    \/ CreateUserRefresh(r)
    \/ CreateUserRollback(r)
    \/ LoginUser(r)
    \/ CreateDriveCheck(r)
    \/ CreateDriveCommit(r)
    \/ CreateDriveRefresh(r)
    \/ get_drives_by_company(r)
    \/ CloseSession(r)

LiveSpec == Spec /\ \A r \in Reqs : WF_vars(Handle(r))

\* ------------------------------------------------------------------------
\* Properties.

Responded(r) == pc[r] \in {"finally", "done"}

\* Request r runs the first statement of its handler in this step.
HandlerStep(r, k) == kind[r] = k /\ pc[r] = "handler" /\ pc'[r] # "handler"

RowsWithEmail(e) == {u \in users : u.email = e}

Registered(p, e) == kind[p] = "register" /\ resp[p].status = 201 /\ body[p].email = e

\* C1: once a register request with email e has succeeded, a register request
\* with email e that runs afterwards is answered 400 'Email already registered'
\* by the existence check, before any write (nothing added to its session, no
\* commit attempted), the users table is unchanged and holds exactly one row
\* with email e; a request so rejected never writes afterwards.
C1_DuplicateRegistrationRejected ==
    /\ [][\A r \in Reqs :
            (HandlerStep(r, "register") /\ \E p \in Reqs : Registered(p, body[r].email))
            => /\ resp'[r] = [status |-> 400, detail |-> "Email already registered",
                              data |-> {}]
               /\ pc'[r] = "finally"
               /\ pending'[r] = {}
               /\ attempts'[r] = 0
               /\ users' = users
               /\ Cardinality({u \in users' : u.email = body[r].email}) = 1]_vars
    /\ [](\A r \in Reqs :
            (kind[r] = "register" /\ resp[r].status = 400)
            => attempts[r] = 0 /\ created[r] = {} /\ pending[r] = {})

C1_Witness ==
    \E p, q \in Reqs :
        /\ Registered(p, body[q].email)
        /\ kind[q] = "register" /\ resp[q].status = 400 /\ pc[q] = "done"
        /\ body[q].password # body[p].password
        /\ Cardinality(RowsWithEmail(body[q].email)) = 1

\* C2: no reachable state of the users table holds two rows with the same
\* email, whatever the interleaving of the register requests.
C2_EmailUniqueInTable ==
    \A u1, u2 \in users : u1.email = u2.email => u1 = u2

\* Two requests with the same email both passed the existence check; one
\* committed and the other's insert was rejected by the unique constraint.
C2_Witness ==
    \E p, q \in Reqs :
        /\ p # q
        /\ kind[p] = "register" /\ kind[q] = "register"
        /\ body[p].email = body[q].email
        /\ db_user[p] = {} /\ db_user[q] = {}
        /\ created[p] # {}
        /\ exc[q] = [type |-> "IntegrityError", at |-> "commit"]

\* C3: a create_drive request whose company_id matches no company row is
\* answered 404 'Company ID not found.' and changes no table; it adds no row to
\* its session and attempts no commit.
C3_CreateDriveUnknownCompany ==
    /\ [][\A r \in Reqs :
            (HandlerStep(r, "create_drive")
                /\ \A c \in companies : c.id # body[r].company_id)
            => /\ resp'[r] = [status |-> 404, detail |-> "Company ID not found.",
                              data |-> {}]
               /\ pc'[r] = "finally"
               /\ pending'[r] = {}
               /\ UNCHANGED <<users, companies, drives>>]_vars
    /\ [](\A r \in Reqs :
            (kind[r] = "create_drive" /\ resp[r].status = 404)
            => attempts[r] = 0 /\ created[r] = {} /\ pending[r] = {})

C3_Witness ==
    \E r \in Reqs :
        /\ kind[r] = "create_drive" /\ body[r].company_id = 999999
        /\ resp[r].status = 404 /\ pc[r] = "done"
        /\ drives # {}

\* C4: every row of drives has the company_id of a row of companies.
C4_DriveReferencesCompany ==
    \A d \in drives : \E c \in companies : c.id = d.company_id

\* The seeded drive and a drive created by a request are both in the table.
C4_Witness ==
    /\ Cardinality(drives) >= 2
    /\ \E r \in Reqs : kind[r] = "create_drive" /\ created[r] # {} /\ created[r] \subseteq drives

\* C5 as claimed: a list_drives request is answered 200 with exactly the drive
\* rows of the requested company, the empty sequence when there are none.
C5_ListDrivesNeverFails ==
    [][\A r \in Reqs :
        HandlerStep(r, "list_drives")
        => resp'[r] = [status |-> 200, detail |-> "",
                       data |-> get_drives_by_company_id(body[r].company_id)]]_vars

\* C5 as amended: a list_drives request for a company_id with no drive rows is
\* answered 404 'No drives found for this company.'; for a company_id with drive
\* rows it is answered 200 with exactly the rows get_drives_by_company_id gives,
\* the drive rows whose company_id is the requested one.
C5_ListDrivesNotFoundWhenEmpty ==
    [][\A r \in Reqs :
        HandlerStep(r, "list_drives")
        => /\ pc'[r] = "finally"
           /\ UNCHANGED <<users, companies, drives>>
           /\ resp'[r] =
                IF \A d \in drives : d.company_id # body[r].company_id
                THEN [status |-> 404, detail |-> "No drives found for this company.",
                      data |-> {}]
                ELSE [status |-> 200, detail |-> "",
                      data |-> get_drives_by_company_id(body[r].company_id)]]_vars

C5_Witness ==
    \E r, q \in Reqs :
        /\ kind[r] = "list_drives" /\ resp[r].status = 404
        /\ get_drives_by_company_id(body[r].company_id) = {}
        /\ kind[q] = "list_drives" /\ resp[q].status = 200 /\ resp[q].data # {}

\* The password of login request r is the one the user it looked up registered with.
CredentialsMatch(r) ==
    \E u \in RowsWithEmail(body[r].email) :
        /\ u \in db_user[r]
        /\ verify_password(body[r].password, u.hashed_password)

\* C6: a login request carrying email and password is accepted as input, and it
\* succeeds, returning the user's id, account_type and a token, exactly when the
\* email is registered and the password is the one given at registration.
C6_LoginSucceedsOnExactPassword ==
    \A r \in Reqs :
        (kind[r] = "login" /\ Responded(r))
        => /\ resp[r].status # 422
           /\ resp[r].status = 200 <=> CredentialsMatch(r)
           /\ resp[r].status = 200 =>
                resp[r].data = {[user_id |-> u.id, account_type |-> u.account_type,
                                 token |-> "SIMULATED_TOKEN"] : u \in db_user[r]}

\* C7: a login whose body was accepted and whose credentials do not match is
\* answered 401 'Invalid credentials', whether or not the email has a user row.
C7_FailedLoginUniform ==
    \A r \in Reqs :
        (kind[r] = "login" /\ Responded(r)
            /\ Validates(UserSchemaFields, body[r].fields)
            /\ ~CredentialsMatch(r))
        => resp[r] = [status |-> 401, detail |-> "Invalid credentials", data |-> {}]

\* The requests that write: register (table users) and create_drive (table drives).
Writes(r) == kind[r] \in {"register", "create_drive"}

TableOf(r) == IF kind[r] = "register" THEN users ELSE drives

Returned(r) == resp[r].status \in {200, 201}

\* What the handler returns for the rows it created, through its response_model.
ReturnedRows(r) ==
    IF kind[r] = "register" THEN {UserSchemaOf(u) : u \in created[r]} ELSE created[r]

\* C8 as claimed: whenever create_user or create_drive surfaces an error, no row
\* of that request is committed; a row is returned only when it is committed
\* and carries its assigned id.
C8_ErrorMeansNothingCommitted ==
    \A r \in Reqs :
        (Writes(r) /\ Responded(r))
        => /\ exc[r] # NoExc => created[r] \cap TableOf(r) = {}
           /\ Returned(r) =>
                /\ created[r] # {} /\ created[r] \subseteq TableOf(r)
                /\ \A row \in created[r] : row.id >= 1

\* C8 as amended: an error raised at the add or the commit step is surfaced as
\* a server error with no row of that request committed (and, in create_user,
\* the session rolled back); an error raised at the refresh step is surfaced
\* with the row already committed, and the row stays; a row is returned only
\* when it is committed and carries its assigned id.  The tables hold exactly
\* the seeded drive and the rows of the requests whose commit succeeded.
C8_ErrorBeforeCommitLeavesNothing ==
    /\ \A r \in Reqs :
        Writes(r)
        => /\ exc[r].at \in {"add", "commit"} =>
                /\ created[r] = {}
                /\ Responded(r) => resp[r] = ServerError
                /\ (Responded(r) /\ kind[r] = "register") => pending[r] = {}
           /\ exc[r].at = "refresh" =>
                /\ created[r] # {} /\ created[r] \subseteq TableOf(r)
                /\ Responded(r) => resp[r] = ServerError
           /\ Returned(r) =>
                /\ exc[r] = NoExc
                /\ created[r] # {} /\ created[r] \subseteq TableOf(r)
                /\ \A row \in created[r] : row.id >= 1
                /\ resp[r].data = ReturnedRows(r)
           /\ pc[r] = "done" => pending[r] = {}
    /\ users = UNION {created[r] : r \in {q \in Reqs : kind[q] = "register"}}
    /\ {d \in drives : d.role # "Software Intern"}
          = UNION {created[r] : r \in {q \in Reqs : kind[q] = "create_drive"}}

\* A registration failed at commit and left nothing, and a create_drive failed
\* at refresh and left its row.
C8_Witness ==
    \E r, q \in Reqs :
        /\ kind[r] = "register" /\ pc[r] = "done"
        /\ exc[r] = [type |-> "OperationalError", at |-> "commit"]
        /\ RowsWithEmail(body[r].email) = {}
        /\ kind[q] = "create_drive" /\ pc[q] = "done"
        /\ exc[q].at = "refresh" /\ created[q] \subseteq drives /\ created[q] # {}

\* C9 as claimed: a register request that creates no user because a row with
\* its email exists is always answered 400 'Email already registered', before
\* any write is attempted.
C9_DuplicateAlwaysConflict ==
    \A r \in Reqs :
        (kind[r] = "register" /\ Responded(r) /\ created[r] = {}
            /\ RowsWithEmail(body[r].email) # {}
            /\ exc[r].type \in {"", "IntegrityError"})
        => /\ resp[r] = [status |-> 400, detail |-> "Email already registered",
                         data |-> {}]
           /\ attempts[r] = 0

\* C9 as amended: a register request whose existence check finds a row with its
\* email, and only such a request, is answered 400 'Email already registered',
\* before any write; a request that passed the check and whose insert the unique
\* constraint rejects (another request committed the email in between) is rolled
\* back and answered with a server error; no request commits more than once.
C9_ConflictOnlyWhenCheckFindsRow ==
    /\ [][\A r \in Reqs :
            HandlerStep(r, "register")
            => /\ RowsWithEmail(body[r].email) # {}
                    <=> resp'[r] = [status |-> 400, detail |-> "Email already registered",
                                    data |-> {}]
               /\ RowsWithEmail(body[r].email) # {}
                    => /\ pc'[r] = "finally" /\ pending'[r] = {} /\ attempts'[r] = 0
                       /\ users' = users]_vars
    /\ [](\A r \in Reqs :
            /\ attempts[r] <= 1
            /\ (kind[r] = "register" /\ exc[r].type = "IntegrityError")
                => /\ db_user[r] = {}
                   /\ attempts[r] = 1
                   /\ created[r] = {}
                   /\ resp[r].status \in {0, 500}
                   /\ Responded(r) => resp[r] = ServerError /\ pending[r] = {}
                   /\ \E q \in Reqs \ {r} : created[q] \cap RowsWithEmail(body[r].email) # {})

C9_Witness ==
    \E r \in Reqs :
        /\ kind[r] = "register" /\ pc[r] = "done"
        /\ exc[r].type = "IntegrityError"
        /\ resp[r].status = 500

\* C10: every request has a session of its own, open while its handler runs; a
\* request that has finished has closed its session, whatever the exit path;
\* and eventually every session a request was given is closed, for good.
C10_SessionClosedOnEveryPath ==
    /\ [](\A r \in Reqs :
            /\ pc[r] = "idle" => db[r] = 0
            /\ pc[r] # "idle" =>
                /\ db[r] \in 1..Len(sessions)
                /\ db[r] # startup_db
                /\ \A q \in Reqs \ {r} : db[q] # db[r]
                /\ sessions[db[r]] = IF pc[r] = "done" THEN "closed" ELSE "open")
    /\ <>[](\A r \in Reqs : db[r] # 0 => sessions[db[r]] = "closed")

\* One request left through an unexpected exception and one through an
\* HTTPException; both have closed their sessions.
C10_Witness ==
    \E r, q \in Reqs :
        /\ pc[r] = "done" /\ exc[r] # NoExc /\ resp[r].status = 500
        /\ pc[q] = "done" /\ resp[q].status \in {400, 401, 404}
        /\ sessions[db[r]] = "closed" /\ sessions[db[q]] = "closed"

====
